---- MODULE Spec2Model ----
(***************************************************************************)
(* loadconf: locating and loading a configuration file.                    *)
(*                                                                         *)
(* The model follows src/src/lib.rs and src/src/error.rs.  A path is the   *)
(* string the code builds, wrapped as a PathBuf; the filesystem is seen    *)
(* from the process's working directory and maps the path strings that     *)
(* name an entry to that entry.  One call runs in the two steps of the     *)
(* code: locate (enumerate and scan, or take the explicit path), then      *)
(* read-and-parse; the entry point then hands the result to the caller.    *)
(***************************************************************************)
EXTENDS Integers, Sequences, FiniteSets, TLC

VARIABLES
    fs,        \* the filesystem: path string -> entry, for the entries that exist
    home,      \* the environment's home directory: None or Some(OsString)
    pc,        \* "idle", "read", "return", "done"
    entry,     \* the entry point of the current (or last) call
    filename,  \* its application name
    path,      \* the Option<P> handed to try_fallback_load
    paths,     \* the Vec<PathBuf> of path_list, << >> while it was not invoked
    selected,  \* the path read_from_file is (to be) called on, or None
    res,       \* the Result of try_fallback_load, None until it is known
    outcome,   \* what the entry point gave its caller, None until it returned
    trace      \* the system calls and parser calls of the call, in order

vars == <<fs, home, pc, entry, filename, path, paths, selected, res, outcome,
          trace>>

-----------------------------------------------------------------------------
(* Bounds *)

MaxFiles == 2

-----------------------------------------------------------------------------
(* Option and Result *)

None == [tag |-> "None"]
Some(x) == [tag |-> "Some", val |-> x]
Ok(v) == [tag |-> "Ok", val |-> v]
Err(e) == [tag |-> "Err", err |-> e]

(* Path / PathBuf: the bytes of the string, unchanged *)
to_path_buf(s) == [inner |-> s]

-----------------------------------------------------------------------------
(* Inputs *)

Names == {"testcfg", "sample"}

(* An OsString is valid UTF-8 or not; into_string succeeds on the former. *)
OsString(s) == [utf8 |-> TRUE, str |-> s]
NonUtf8 == [utf8 |-> FALSE, str |-> "/home/\\xff"]
HomeEnvs == {None, Some(NonUtf8), Some(OsString("/home/test"))}

GivenPath == "given.toml"
PathArgs == {None, Some(GivenPath)}

(* The test's Config and its Default *)
DefaultConfig == [var |-> "Test configuration."]

(* The places of the filesystem that may hold an entry: candidates of
   "testcfg" from each of the three groups of the crate documentation (its
   entries 1, 2, 4, 5, 8, 10, 11 and 14, with /home/test for the home
   directory), an explicit path, /etc/testcfg.toml, which is no
   candidate; and the second candidate of "sample". *)
FsUniverse ==
    {"testcfg", "testcfg.toml", ".testcfg.toml",
     "/home/test/.testcfg", "/home/test/.config/testcfg.toml",
     "/home/test/.config/testcfg/config.toml",
     "/etc/.config/testcfg", "/etc/.config/testcfg/config.toml",
     GivenPath, "/etc/testcfg.toml", "sample.toml"}

(* File contents: a TOML document setting var to a string naming the place
   it is stored at (so that two files never hold the same value), or text
   that is no TOML document of the Config type. *)
GoodText(p) == "var = \"" \o p \o "\"\n"
BadText == "var = \n"

Kinds == {"file", "badfile", "dir", "noperm"}
EntryAt(p, k) ==
    [kind |-> IF k = "badfile" THEN "file" ELSE k,
     text |-> IF k = "dir" THEN "" ELSE IF k = "badfile" THEN BadText ELSE GoodText(p)]

Filesystems ==
    UNION {{[p \in S |-> EntryAt(p, k[p])] : k \in [S -> Kinds]} :
              S \in {T \in SUBSET FsUniverse : Cardinality(T) <= MaxFiles}}

-----------------------------------------------------------------------------
(* error.rs *)

From_io(e) == [kind |-> "File", cause |-> e]
From_toml(e) == [kind |-> "Deserialize", cause |-> e]

-----------------------------------------------------------------------------
(* External collaborators, as the code uses them *)

exists(p, f) == p.inner \in DOMAIN f

File_open(p, f) ==
    IF p.inner \notin DOMAIN f THEN Err("NotFound")
    ELSE IF f[p.inner].kind = "noperm" THEN Err("PermissionDenied")
    ELSE Ok(f[p.inner])

read_to_string(file) ==
    IF file.kind = "dir" THEN Err("IsADirectory") ELSE Ok(file.text)

from_str(text) ==
    IF \E p \in FsUniverse : text = GoodText(p)
    THEN Ok([var |-> CHOOSE p \in FsUniverse : text = GoodText(p)])
    ELSE Err("expected a value")

home_dir(env) == env

into_string(os) == IF os.utf8 THEN Ok(os.str) ELSE Err(os)

ok(r) == IF r.tag = "Ok" THEN Some(r.val) ELSE None

-----------------------------------------------------------------------------
(* lib.rs *)

Event(op, arg) == [op |-> op, arg |-> arg]

(* read_from_file, were it to fall back to the default on text the parser
   rejects *)
read_from_file_lenient(p, f) ==
    LET opened == File_open(p, f) IN
    IF opened.tag = "Err"
    THEN [result |-> Err(From_io(opened.err)),
          events |-> <<Event("open", p.inner)>>]
    ELSE LET text == read_to_string(opened.val) IN
         IF text.tag = "Err"
         THEN [result |-> Err(From_io(text.err)),
               events |-> <<Event("open", p.inner), Event("read", p.inner)>>]
         ELSE LET parsed == from_str(text.val) IN
              [result |-> IF parsed.tag = "Err"
                          THEN Ok(DefaultConfig)
                          ELSE Ok(parsed.val),
               events |-> <<Event("open", p.inner), Event("read", p.inner),
                            Event("parse", text.val)>>]

(* read_from_file: the Result, and the calls it made *)
read_from_file(p, f) ==
    LET opened == File_open(p, f) IN
    IF opened.tag = "Err"
    THEN [result |-> Err(From_io(opened.err)),
          events |-> <<Event("open", p.inner)>>]
    ELSE LET text == read_to_string(opened.val) IN
         IF text.tag = "Err"
         THEN [result |-> Err(From_io(text.err)),
               events |-> <<Event("open", p.inner), Event("read", p.inner)>>]
         ELSE LET parsed == from_str(text.val) IN
              [result |-> IF parsed.tag = "Err"
                          THEN Err(From_toml(parsed.err))
                          ELSE Ok(parsed.val),
               events |-> <<Event("open", p.inner), Event("read", p.inner),
                            Event("parse", text.val)>>]

relative_paths(name) ==
    <<name, name \o ".toml", "." \o name, "." \o name \o ".toml">>

home_string(env) ==
    LET h == home_dir(env) IN
    IF h.tag = "None" THEN None ELSE ok(into_string(h.val))

(* home_paths with two entries in the wrong order *)
home_paths_swapped(h, name) ==
    IF h.tag = "Some"
    THEN <<h.val \o "/." \o name,
           h.val \o "/." \o name \o ".toml",
           h.val \o "/.config/" \o name \o ".toml",
           h.val \o "/.config/" \o name,
           h.val \o "/.config/" \o name \o "/config",
           h.val \o "/.config/" \o name \o "/config.toml">>
    ELSE << >>

(* home_paths, were an unknown home directory to count as the empty string *)
home_paths_placeholder(h, name) ==
    LET dir == IF h.tag = "Some" THEN h.val ELSE "" IN
    <<dir \o "/." \o name,
      dir \o "/." \o name \o ".toml",
      dir \o "/.config/" \o name,
      dir \o "/.config/" \o name \o ".toml",
      dir \o "/.config/" \o name \o "/config",
      dir \o "/.config/" \o name \o "/config.toml">>

home_paths(h, name) ==
    IF h.tag = "Some"
    THEN <<h.val \o "/." \o name,
           h.val \o "/." \o name \o ".toml",
           h.val \o "/.config/" \o name,
           h.val \o "/.config/" \o name \o ".toml",
           h.val \o "/.config/" \o name \o "/config",
           h.val \o "/.config/" \o name \o "/config.toml">>
    ELSE << >>

absolute_paths(name) ==
    <<"/etc/.config/" \o name,
      "/etc/.config/" \o name \o ".toml",
      "/etc/.config/" \o name \o "/config",
      "/etc/.config/" \o name \o "/config.toml">>

path_list(name, env) ==
    LET strings == relative_paths(name) \o home_paths(home_string(env), name)
                       \o absolute_paths(name)
    IN  [i \in 1..Len(strings) |-> to_path_buf(strings[i])]

(* find, were it to yield the last candidate when none exists *)
find_none_is_last(ps, f) ==
    IF \E i \in 1..Len(ps) : exists(ps[i], f)
    THEN CHOOSE i \in 1..Len(ps) :
             exists(ps[i], f) /\ \A j \in 1..(i - 1) : ~exists(ps[j], f)
    ELSE Len(ps)

(* find, were it to yield the last path that exists *)
find_last(ps, f) ==
    IF \E i \in 1..Len(ps) : exists(ps[i], f)
    THEN CHOOSE i \in 1..Len(ps) :
             exists(ps[i], f) /\ \A j \in (i + 1)..Len(ps) : ~exists(ps[j], f)
    ELSE 0

(* find, were it to pass over the entries that cannot be read as a file *)
find_readable(ps, f) ==
    LET usable(q) == exists(q, f) /\ f[q.inner].kind = "file" IN
    IF \E i \in 1..Len(ps) : usable(ps[i])
    THEN CHOOSE i \in 1..Len(ps) :
             usable(ps[i]) /\ \A j \in 1..(i - 1) : ~usable(ps[j])
    ELSE 0

(* paths.iter().find(|p| p.exists()): the index of the first path that
   exists, 0 when none does *)
find(ps, f) ==
    IF \E i \in 1..Len(ps) : exists(ps[i], f)
    THEN CHOOSE i \in 1..Len(ps) :
             exists(ps[i], f) /\ \A j \in 1..(i - 1) : ~exists(ps[j], f)
    ELSE 0

(* the existence tests find makes: it stops at the first that succeeds *)
scan(ps, f) ==
    LET k == find(ps, f)
        n == IF k = 0 THEN Len(ps) ELSE k
    IN  [i \in 1..n |-> Event(IF exists(ps[i], f) THEN "exists" ELSE "missing",
                              ps[i].inner)]

(* expect, were it unwrap_or_default *)
expect_or_default(r, msg) ==
    IF r.tag = "Ok"
    THEN [tag |-> "Return", val |-> r.val]
    ELSE [tag |-> "Return", val |-> DefaultConfig]

(* Result::expect *)
expect(r, msg) ==
    IF r.tag = "Ok"
    THEN [tag |-> "Return", val |-> r.val]
    ELSE [tag |-> "Panic", msg |-> msg, err |-> r.err]

Fatal(e) == e \in {"load", "fallback_load"}

-----------------------------------------------------------------------------
(* The state machine *)

Init ==
    /\ fs \in Filesystems
    /\ home \in HomeEnvs
    /\ pc = "idle"
    /\ entry = "none"
    /\ filename = ""
    /\ path = None
    /\ paths = << >>
    /\ selected = None
    /\ res = None
    /\ outcome = None
    /\ trace = << >>

(* Locate, were a missing explicit path to fall back to the search *)
Locate_search_on_missing(e, name, p) ==
    /\ pc = "idle"
    /\ entry' = e
    /\ filename' = name
    /\ path' = p
    /\ outcome' = None
    /\ IF p.tag = "Some" /\ exists(to_path_buf(p.val), fs)
       THEN /\ paths' = << >>
            /\ selected' = Some(to_path_buf(p.val))
            /\ trace' = << >>
            /\ res' = None
            /\ pc' = "read"
       ELSE LET ps == path_list(name, home)
                k == find(ps, fs)
            IN  /\ paths' = ps
                /\ trace' = scan(ps, fs) \o
                              (IF k = 0 THEN <<Event("default", "")>> ELSE << >>)
                /\ selected' = IF k = 0 THEN None ELSE Some(ps[k])
                /\ res' = IF k = 0 THEN Ok(DefaultConfig) ELSE None
                /\ pc' = IF k = 0 THEN "return" ELSE "read"
    /\ UNCHANGED <<fs, home>>

(* try_fallback_load up to the choice of the file: the explicit path, or
   the first candidate that exists; Ok(Default::default()) when there is none *)
Locate(e, name, p) ==
    /\ pc = "idle"
    /\ entry' = e
    /\ filename' = name
    /\ path' = p
    /\ outcome' = None
    /\ IF p.tag = "Some"
       THEN /\ paths' = << >>
            /\ selected' = Some(to_path_buf(p.val))
            /\ trace' = << >>
            /\ res' = None
            /\ pc' = "read"
       ELSE LET ps == path_list(name, home)
                k == find(ps, fs)
            IN  /\ paths' = ps
                /\ trace' = scan(ps, fs) \o
                              (IF k = 0 THEN <<Event("default", "")>> ELSE << >>)
                /\ selected' = IF k = 0 THEN None ELSE Some(ps[k])
                /\ res' = IF k = 0 THEN Ok(DefaultConfig) ELSE None
                /\ pc' = IF k = 0 THEN "return" ELSE "read"
    /\ UNCHANGED <<fs, home>>

try_fallback_load(name, p) == Locate("try_fallback_load", name, p)

fallback_load(name, p) == Locate("fallback_load", name, p)

try_load(name) == Locate("try_load", name, None)

load(name) == Locate("load", name, None)

(* ReadAndParse, were a file that vanished to count as no file at all *)
ReadAndParse_default_on_missing ==
    /\ pc = "read"
    /\ LET r == read_from_file(selected.val, fs) IN
         IF r.result.tag = "Err" /\ r.result.err = From_io("NotFound")
         THEN /\ res' = Ok(DefaultConfig)
              /\ trace' = trace \o r.events \o <<Event("default", "")>>
         ELSE /\ res' = r.result
              /\ trace' = trace \o r.events
    /\ pc' = "return"
    /\ UNCHANGED <<fs, home, entry, filename, path, paths, selected, outcome>>

(* ReadAndParse, were it to remove the file it has read *)
ReadAndParse_consume ==
    /\ pc = "read"
    /\ LET r == read_from_file(selected.val, fs) IN
         /\ res' = r.result
         /\ trace' = trace \o r.events
    /\ pc' = "return"
    /\ fs' = [q \in DOMAIN fs \ {selected.val.inner} |-> fs[q]]
    /\ UNCHANGED <<home, entry, filename, path, paths, selected, outcome>>

(* read_from_file on the chosen path *)
ReadAndParse ==
    /\ pc = "read"
    /\ LET r == read_from_file(selected.val, fs) IN
         /\ res' = r.result
         /\ trace' = trace \o r.events
    /\ pc' = "return"
    /\ UNCHANGED <<fs, home, entry, filename, path, paths, selected, outcome>>

(* the entry point hands the result to its caller: the Result itself, or
   what expect makes of it *)
Return ==
    /\ pc = "return"
    /\ outcome' = IF Fatal(entry)
                  THEN expect(res, "Error reading configuration from file")
                  ELSE [tag |-> "Return", val |-> res]
    /\ pc' = "done"
    /\ UNCHANGED <<fs, home, entry, filename, path, paths, selected, res, trace>>

(* the call is over: its locals are dropped, and the next call starts *)
Finish ==
    /\ pc = "done"
    /\ pc' = "idle"
    /\ entry' = "none"
    /\ filename' = ""
    /\ path' = None
    /\ paths' = << >>
    /\ selected' = None
    /\ res' = None
    /\ outcome' = None
    /\ trace' = << >>
    /\ UNCHANGED <<fs, home>>

(* try_fallback_load as a function of its arguments, the environment and a
   filesystem that does not change while it runs *)
try_fallback_load_impl(name, p, env, f) ==
    IF p.tag = "Some"
    THEN read_from_file(to_path_buf(p.val), f)
    ELSE LET ps == path_list(name, env)
             k == find(ps, f)
         IN  IF k = 0
             THEN [result |-> Ok(DefaultConfig),
                   events |-> scan(ps, f) \o <<Event("default", "")>>]
             ELSE LET r == read_from_file(ps[k], f) IN
                  [result |-> r.result, events |-> scan(ps, f) \o r.events]

(* Another process removes an entry after the scan has chosen a file and
   before read_from_file opens it.  (A removal at any other time of a call
   leaves a filesystem the call could have started from.) *)
EnvRemove(p) ==
    /\ pc = "read"
    /\ p \in DOMAIN fs
    /\ fs' = [q \in DOMAIN fs \ {p} |-> fs[q]]
    /\ UNCHANGED <<home, pc, entry, filename, path, paths, selected, res,
                   outcome, trace>>

Next ==
    \/ \E n \in Names : load(n)
    \/ \E n \in Names : try_load(n)
    \/ \E n \in Names, p \in PathArgs : fallback_load(n, p)
    \/ \E n \in Names, p \in PathArgs : try_fallback_load(n, p)
    \/ ReadAndParse
    \/ Return
    \/ Finish

Spec == Init /\ [][Next]_vars

NextEnv ==
    \/ Next
    \/ \E p \in FsUniverse : EnvRemove(p)

SpecEnv == Init /\ [][NextEnv]_vars

-----------------------------------------------------------------------------
(* Vocabulary of the properties *)

P(s) == [inner |-> s]

Known == pc \in {"return", "done"}

SearchMode == path.tag = "None"

Present(s) == s \in DOMAIN fs

Ops(op) == {i \in DOMAIN trace : trace[i].op = op}

IsFileError(r) == r.tag = "Err" /\ r.err.kind = "File"

IsDeserializeError(r) == r.tag = "Err" /\ r.err.kind = "Deserialize"

HomeResolves == home.tag = "Some" /\ home.val.utf8

Expected14(N, H) ==
    <<P(N), P(N \o ".toml"), P("." \o N), P("." \o N \o ".toml"),
      P(H \o "/." \o N), P(H \o "/." \o N \o ".toml"),
      P(H \o "/.config/" \o N), P(H \o "/.config/" \o N \o ".toml"),
      P(H \o "/.config/" \o N \o "/config"),
      P(H \o "/.config/" \o N \o "/config.toml"),
      P("/etc/.config/" \o N), P("/etc/.config/" \o N \o ".toml"),
      P("/etc/.config/" \o N \o "/config"),
      P("/etc/.config/" \o N \o "/config.toml")>>

Expected8(N) ==
    <<P(N), P(N \o ".toml"), P("." \o N), P("." \o N \o ".toml"),
      P("/etc/.config/" \o N), P("/etc/.config/" \o N \o ".toml"),
      P("/etc/.config/" \o N \o "/config"),
      P("/etc/.config/" \o N \o "/config.toml")>>

(* the list test::generate_path_list expects *)
TestExpected ==
    <<P("testcfg"), P("testcfg.toml"), P(".testcfg"), P(".testcfg.toml"),
      P("/home/test/.testcfg"), P("/home/test/.testcfg.toml"),
      P("/home/test/.config/testcfg"), P("/home/test/.config/testcfg.toml"),
      P("/home/test/.config/testcfg/config"),
      P("/home/test/.config/testcfg/config.toml"),
      P("/etc/.config/testcfg"), P("/etc/.config/testcfg.toml"),
      P("/etc/.config/testcfg/config"), P("/etc/.config/testcfg/config.toml")>>

(* the candidates that exist, and the first of them *)
Existing == {i \in DOMAIN paths : Present(paths[i].inner)}

FirstExisting == CHOOSE i \in Existing : \A j \in Existing : i <= j

(* what the caller of the entry point gets for a Result r *)
Delivered(e, r) ==
    IF e \in {"load", "fallback_load"}
    THEN IF r.tag = "Ok"
         THEN [tag |-> "Return", val |-> r.val]
         ELSE [tag |-> "Panic", msg |-> "Error reading configuration from file",
               err |-> r.err]
    ELSE [tag |-> "Return", val |-> r]

-----------------------------------------------------------------------------
(* C1: in search mode with a home directory that resolves to a string H,
   path_list(N) is exactly the fourteen paths N, N.toml, .N, .N.toml,
   H/.N, H/.N.toml, H/.config/N, H/.config/N.toml, H/.config/N/config,
   H/.config/N/config.toml, /etc/.config/N, /etc/.config/N.toml,
   /etc/.config/N/config, /etc/.config/N/config.toml, in this order. *)
C1_PathList14 ==
    (pc # "idle" /\ SearchMode /\ HomeResolves)
        => /\ paths = Expected14(filename, home.val.str)
           /\ Len(paths) = 14

C1_Witness ==
    /\ pc = "done"
    /\ filename = "testcfg"
    /\ home = Some(OsString("/home/test"))
    /\ paths = TestExpected

(* C2: in search mode with a home directory that cannot be determined (none,
   or one that is no UTF-8 string), path_list(N) is exactly the eight paths
   N, N.toml, .N, .N.toml, /etc/.config/N, /etc/.config/N.toml,
   /etc/.config/N/config, /etc/.config/N/config.toml, in this order: no
   home entry, no empty or placeholder path. *)
C2_PathList8 ==
    (pc # "idle" /\ SearchMode /\ ~HomeResolves)
        => /\ paths = Expected8(filename)
           /\ Len(paths) = 8

C2_Witness ==
    /\ pc = "done"
    /\ home = None
    /\ filename = "sample"
    /\ Len(paths) = 8
    /\ paths[5] = P("/etc/.config/sample")

(* C3: in search mode, when no path of path_list(N) exists, the call
   succeeds with the default value: no error, no panic, no file opened. *)
C3_DefaultWhenNothingExists ==
    (Known /\ SearchMode /\ Existing = {})
        => /\ res = Ok(DefaultConfig)
           /\ Ops("open") = {} /\ Ops("read") = {} /\ Ops("parse") = {}
           /\ pc = "done" =>
                 /\ outcome.tag = "Return"
                 /\ outcome.val = IF Fatal(entry) THEN DefaultConfig
                                  ELSE Ok(DefaultConfig)

C3_Witness ==
    /\ pc = "done"
    /\ entry = "load"
    /\ filename = "testcfg"
    /\ HomeResolves
    /\ Present("/etc/testcfg.toml")
    /\ outcome = [tag |-> "Return", val |-> DefaultConfig]

(* C4: in search mode, when a candidate exists, the one file opened and read
   is the existing candidate of smallest index, a returned value is the one
   parsed from that file's content, the default is not returned, and no
   later candidate is tested, opened or read. *)
C4_FirstMatch ==
    (Known /\ SearchMode /\ Existing # {})
        => LET k == FirstExisting
               f == paths[k].inner
           IN  /\ Cardinality(Ops("open")) = 1
               /\ \A i \in Ops("open") \cup Ops("read") : trace[i].arg = f
               /\ \A i \in Ops("parse") : trace[i].arg = fs[f].text
               /\ Ops("default") = {}
               /\ res.tag = "Ok" => res.val = [var |-> f]
               /\ \A i \in DOMAIN trace : \A j \in (k + 1)..Len(paths) :
                      trace[i].arg # paths[j].inner

C4_Witness ==
    /\ pc = "done"
    /\ entry = "load"
    /\ filename = "testcfg"
    /\ HomeResolves
    /\ Present("/home/test/.testcfg")
    /\ Present("/etc/.config/testcfg")
    /\ outcome = [tag |-> "Return", val |-> [var |-> "/home/test/.testcfg"]]

(* C5: with an explicit path p, path_list is not invoked and no candidate is
   tested or read; the result is decided by the entry at p alone, and is an
   access error, never the default, when p does not exist. *)
C5_ExplicitPathBypass ==
    (pc # "idle" /\ ~SearchMode)
        => /\ paths = << >>
           /\ Ops("exists") = {} /\ Ops("missing") = {} /\ Ops("default") = {}
           /\ \A i \in DOMAIN trace : trace[i].op = "parse" \/ trace[i].arg = path.val
           /\ Known =>
                 IF ~Present(path.val) \/ fs[path.val].kind # "file"
                 THEN IsFileError(res)
                 ELSE IF fs[path.val].text = BadText
                      THEN IsDeserializeError(res)
                      ELSE res = Ok([var |-> path.val])

C5_Witness ==
    /\ pc = "done"
    /\ entry = "try_fallback_load"
    /\ filename = "testcfg"
    /\ path = Some(GivenPath)
    /\ ~Present(GivenPath)
    /\ Present("testcfg.toml")
    /\ outcome = [tag |-> "Return", val |-> Err(From_io("NotFound"))]

(* C6: load and fallback_load return v exactly when try_load and
   try_fallback_load return Ok(v) and panic exactly when those return an
   error; the four entry points make the same tests and reads in the same
   order, and load and try_load are try_fallback_load with no path. *)
C6_FatalIsStrictWrapper ==
    pc = "done"
        => /\ entry \in {"load", "try_load"} => path = None
           /\ LET t == try_fallback_load_impl(filename, path, home, fs) IN
                /\ trace = t.events
                /\ res = t.result
                /\ outcome = Delivered(entry, t.result)
                /\ Fatal(entry) =>
                      /\ outcome.tag = "Return" <=> t.result.tag = "Ok"
                      /\ outcome.tag = "Panic" <=> t.result.tag = "Err"

C6_Witness ==
    /\ pc = "done"
    /\ entry = "fallback_load"
    /\ path = Some(GivenPath)
    /\ outcome.tag = "Panic"
    /\ outcome.err.kind = "Deserialize"

(* C7: read_from_file ends in an access error when the open or the read
   fails, and then the parser is not invoked; otherwise in a deserialization
   error when the parser rejects the text; otherwise in the value parsed
   from the whole text.  Nothing else is returned. *)
C7_ReadFromFileOutcome ==
    (Known /\ selected.tag = "Some")
        => LET s == selected.val.inner IN
           IF ~Present(s) \/ fs[s].kind = "noperm"
           THEN /\ IsFileError(res)
                /\ Ops("read") = {} /\ Ops("parse") = {}
           ELSE IF fs[s].kind = "dir"
           THEN /\ IsFileError(res)
                /\ Cardinality(Ops("read")) = 1 /\ Ops("parse") = {}
           ELSE IF fs[s].text = BadText
           THEN /\ IsDeserializeError(res)
                /\ Cardinality(Ops("parse")) = 1
           ELSE /\ res = Ok([var |-> s])
                /\ Cardinality(Ops("parse")) = 1

C7_Witness ==
    /\ Known
    /\ selected.tag = "Some"
    /\ Present(selected.val.inner)
    /\ fs[selected.val.inner].kind = "dir"
    /\ res = Err(From_io("IsADirectory"))

(* C8: in search mode, once the scan has chosen a candidate, a failure to
   open or read it (the entry was removed meanwhile, is a directory, or is
   unreadable) ends the call with an access error: the default is not
   returned, nothing is scanned again, no other candidate is tried. *)
C8_NoFallbackAfterSelection ==
    (Known /\ SearchMode /\ selected.tag = "Some"
       /\ (~Present(selected.val.inner)
             \/ fs[selected.val.inner].kind \in {"dir", "noperm"}))
        => LET s == selected.val.inner
               k == CHOOSE i \in DOMAIN paths : paths[i] = selected.val
           IN  /\ IsFileError(res)
               /\ Ops("default") = {} /\ Ops("parse") = {}
               /\ Ops("exists") = {k}
               /\ Ops("missing") = 1..(k - 1)
               /\ \A i \in 1..k : trace[i].arg = paths[i].inner
               /\ Cardinality(Ops("open")) = 1
               /\ \A i \in DOMAIN trace : i > k =>
                      trace[i].op \in {"open", "read"} /\ trace[i].arg = s

C8_Witness ==
    /\ pc = "done"
    /\ SearchMode
    /\ selected = Some(P(".testcfg.toml"))
    /\ ~Present(".testcfg.toml")
    /\ Present("/etc/.config/testcfg")
    /\ outcome.tag = "Panic"
    /\ outcome.err = From_io("NotFound")

(* C9: no step of a load call changes the filesystem or the environment,
   and the result of every call, after any number of earlier calls, is the
   one its arguments and the filesystem determine. *)
C9_ReadOnlyAndStateless ==
    /\ [][fs' = fs /\ home' = home]_vars
    /\ [](pc = "done" =>
            outcome = Delivered(entry,
                        try_fallback_load_impl(filename, path, home, fs).result))

C9_Witness ==
    /\ pc = "done"
    /\ selected.tag = "Some"
    /\ Ops("parse") # {}
    /\ Present(selected.val.inner)
    /\ res = Ok([var |-> selected.val.inner])

(* C10: a result made by Default::default() occurs only in search mode after
   the scan reported every path of path_list(N) missing, with no file
   opened; every other completed call opened exactly one file and ends in
   an error or in the value parsed from that file. *)
C10_DefaultOnlyAfterFullMiss ==
    Known =>
        IF Ops("default") # {}
        THEN /\ SearchMode
             /\ res = Ok(DefaultConfig)
             /\ Len(trace) = Len(paths) + 1
             /\ \A i \in 1..Len(paths) : trace[i] = Event("missing", paths[i].inner)
             /\ Ops("open") = {}
        ELSE /\ Cardinality(Ops("open")) = 1
             /\ Cardinality(Ops("parse")) <= 1
             /\ \/ res.tag = "Err"
                \/ /\ res.tag = "Ok"
                   /\ \E o \in Ops("open"), r \in Ops("read"), q \in Ops("parse") :
                        /\ o < r /\ r < q
                        /\ trace[r].arg = trace[o].arg
                        /\ trace[q].arg = GoodText(trace[o].arg)
                        /\ res.val = [var |-> trace[o].arg]

C10_Witness ==
    /\ Known
    /\ Ops("default") # {}
    /\ filename = "testcfg"
    /\ HomeResolves
    /\ Len(paths) = 14
    /\ Present("/etc/testcfg.toml")
    /\ Present(GivenPath)

====
